---- MODULE Spec2Model ----
(***************************************************************************)
(* The batch corrector of francis-xrex/batch-CURLer: update_occupation.py  *)
(* (mode "update") and add_comment.py (mode "comment").  One run of main() *)
(* is modelled: logging set-up, configuration and dataset loading, and the *)
(* row loop (payload, HTTP call, classification, log line), with the       *)
(* top-level exception handler that ends the run.                          *)
(*                                                                         *)
(* Text that the code inspects character by character (the occupation key, *)
(* a JSON string body) is a sequence of one-character strings.  A JSON     *)
(* value is a tagged record; an object's field values are [t, v] records   *)
(* whose v is the text str() gives.  requests is taken at a version whose  *)
(* JSONDecodeError is a RequestException (2.27 and later).                 *)
(***************************************************************************)
EXTENDS Integers, Sequences, FiniteSets, TLC

VARIABLES mode, pc, config, df, idx, data, result, requests, outcomes,
          results, status, console, logfile, cfgFile, csvFile

vars == <<mode, pc, config, df, idx, data, result, requests, outcomes,
          results, status, console, logfile, cfgFile, csvFile>>

\* Rows of the multi-row datasets, and length of the occupation keys drawn.
MaxRows == 2
MaxKeyLen == 4

\* Width the occupation key is padded to.
KeyWidth == 3

Modes == {"update", "comment"}

-----------------------------------------------------------------------------
\* Text

Digits == {"0", "1", "2", "3", "4", "5", "6", "7", "8", "9"}

Alphabet == {"0", "7", "A", "-"}

RECURSIVE TextUpTo(_)
TextUpTo(n) ==
  IF n = 0 THEN {<<>>}
  ELSE LET S == TextUpTo(n - 1)
       IN  S \cup {Append(s, c) : s \in {t \in S : Len(t) = n - 1}, c \in Alphabet}

RECURSIVE Zeros(_)
Zeros(n) == IF n <= 0 THEN <<>> ELSE <<"0">> \o Zeros(n - 1)

\* str.isdigit(): non-empty and every character a digit.
isdigit(s) == Len(s) > 0 /\ \A i \in 1..Len(s) : s[i] \in Digits

\* str.zfill(width): zeros go after a leading sign.
zfill(s, width) ==
  IF Len(s) >= width THEN s
  ELSE IF Len(s) > 0 /\ s[1] \in {"+", "-"}
       THEN <<s[1]>> \o Zeros(width - Len(s)) \o Tail(s)
       ELSE Zeros(width - Len(s)) \o s

\* p in s, for two str values.
IsSubstring(p, s) ==
  \E i \in 0..(Len(s) - Len(p)) : \A j \in 1..Len(p) : s[i + j] = p[j]

CodeText == <<"c", "o", "d", "e">>

-----------------------------------------------------------------------------
\* The dataset

\* A cell of the 'Expected occupation key' column: text, or the missing
\* value pandas loads for an empty cell (a float NaN).
NaN == [nan |-> TRUE, text |-> <<>>]
Cell(s) == [nan |-> FALSE, text |-> s]

Row(id, key) ==
  [applicant |-> id, institution |-> "TW", employment |-> "E9", key |-> key]

ApplicantOf(i) == IF i = 1 THEN "A1" ELSE IF i = 2 THEN "A2" ELSE "A3"

ExampleKeys ==
  {<<"7">>, <<"0", "4", "2">>, <<"1", "2", "3", "4">>, <<"0", "A", "7">>}

\* Datasets of up to MaxRows rows over a short key and the missing value,
\* and one-row datasets over every key of 1 to MaxKeyLen characters (an
\* empty cell is never text: it loads as the missing value).
RowKeys == {Cell(<<"7">>), NaN}

RECURSIVE RowSeqs(_)
RowSeqs(n) ==
  IF n = 0 THEN {<<>>}
  ELSE LET S == RowSeqs(n - 1)
       IN  S \cup {Append(s, Row(ApplicantOf(n), k)) :
                     s \in {t \in S : Len(t) = n - 1}, k \in RowKeys}

Datasets ==
  RowSeqs(MaxRows)
    \cup {<<Row("A1", Cell(k))>> :
            k \in (TextUpTo(MaxKeyLen) \ {<<>>}) \cup ExampleKeys}

\* What read_csv finds: an unreadable file, or a table.
CsvFiles == {[ok |-> FALSE, rows |-> <<>>]} \cup {[ok |-> TRUE, rows |-> d] : d \in Datasets}

-----------------------------------------------------------------------------
\* The configuration file

\* present: the file exists; parses: it is INI text; auth, api: the
\* sections; jwt, base: the keys.
ConfigFiles ==
  {c \in [present : BOOLEAN, parses : BOOLEAN, auth : BOOLEAN, jwt : BOOLEAN,
          api : BOOLEAN, base : BOOLEAN] :
     /\ c.jwt => c.auth
     /\ c.base => c.api
     /\ ~c.present => c.parses
     /\ (~c.present \/ ~c.parses) => (~c.auth /\ ~c.api)}

NoConfig == [jwt_token |-> "", api_base_url |-> ""]

\* Mutant: the test for the [Authorization] section is dropped.
read_config_error_no_section(c) ==
  LET inner ==
        IF ~c.parses THEN <<"File contains no section headers.">>
        ELSE IF ~c.jwt THEN <<"jwt_token key not found in Authorization section">>
        ELSE IF ~c.api THEN <<"API section not found in config file">>
        ELSE IF ~c.base THEN <<"base_url key not found in API section">>
        ELSE <<>>
  IN  IF inner = <<>> THEN <<>> ELSE <<"Error reading configuration: ">> \o inner

\* read_config(): the message of the exception it raises, or <<>>.
\* ConfigParser.read() skips a file that does not exist, so an absent file
\* is an empty configuration.
read_config_error(c) ==
  LET inner ==
        IF ~c.parses THEN <<"File contains no section headers.">>
        ELSE IF ~c.auth THEN <<"Authorization section not found", " in config file">>
        ELSE IF ~c.jwt THEN <<"jwt_token key not found in Authorization section">>
        ELSE IF ~c.api THEN <<"API section not found in config file">>
        ELSE IF ~c.base THEN <<"base_url key not found in API section">>
        ELSE <<>>
  IN  IF inner = <<>> THEN <<>> ELSE <<"Error reading configuration: ">> \o inner

read_config(c) == [jwt_token |-> "JWT", api_base_url |-> "https://cms"]

-----------------------------------------------------------------------------
\* JSON values and the outcomes of one HTTP call

FV(t, v) == [t |-> t, v |-> v]
Absent == FV("absent", "")
S(v) == FV("str", v)
N(v) == FV("num", v)

JNull == [t |-> "null"]
JNum(v) == [t |-> "num", v |-> v]
JStr(s) == [t |-> "str", s |-> s]
JList(l) == [t |-> "list", l |-> l]
JBool(b) == [t |-> "bool", b |-> b]
JObj(f) == [t |-> "obj", f |-> f]

\* The object with the given code, desc and data fields (Absent: no field).
Obj(code, desc, extra) ==
  LET val == [k \in {"code", "desc", "data"} |->
                IF k = "code" THEN code ELSE IF k = "desc" THEN desc ELSE extra]
  IN  JObj([k \in {k \in DOMAIN val : val[k] # Absent} |-> val[k]])

JsonObjects ==
  {Obj(Absent, Absent, Absent), Obj(Absent, S("invalid key"), S("d1")),
   Obj(S("0"), Absent, Absent), Obj(N("0"), Absent, Absent)}
    \cup {Obj(S("5"), d, x) : d \in {Absent, S("invalid key")}, x \in {Absent, S("d1")}}

JsonOthers ==
  {JNull, JNum("0"), JNum("5"), JBool(TRUE), JStr(CodeText), JStr(<<"o", "k">>),
   JList(<<JStr(CodeText)>>)}

NonJson == [t |-> "nonjson"]

Bodies == JsonObjects \cup JsonOthers \cup {NonJson}

\* Bodies tried with the statuses other than 200.
ErrorBodies ==
  {Obj(S("0"), Absent, Absent), Obj(S("5"), S("invalid key"), Absent),
   Obj(Absent, Absent, Absent), JNull, JNum("5"), NonJson}

Statuses == {200, 300, 500}

TransportError == [kind |-> "exception", status |-> 0, body |-> NonJson]
Response(st, b) == [kind |-> "response", status |-> st, body |-> b]

Outcomes ==
  {TransportError}
    \cup {Response(200, b) : b \in Bodies}
    \cup {Response(st, b) : st \in Statuses \ {200}, b \in ErrorBodies}

-----------------------------------------------------------------------------
\* The two API functions

\* The dict both except branches of update_occupation build.
ErrorDict(code, message) ==
  JObj([k \in {"success", "error_code", "error_message"} |->
          IF k = "success" THEN FV("bool", "False")
          ELSE IF k = "error_code" THEN code ELSE S(message)])

\* Mutant: a 4xx/5xx response is turned into the error dict.
update_occupation_checked(o) ==
  IF o.kind = "exception" THEN ErrorDict(S("RequestException"), "transport error")
  ELSE IF 400 <= o.status /\ o.status < 600 THEN ErrorDict(S("RequestException"), "http error")
  ELSE IF o.body = NonJson THEN ErrorDict(N(ToString(o.status)), "raw body")
  ELSE o.body

\* update_occupation(): the value returned for an outcome of requests.put.
\* The status code is not looked at.
update_occupation(o) ==
  IF o.kind = "exception" THEN ErrorDict(S("RequestException"), "transport error")
  ELSE IF o.body = NonJson THEN ErrorDict(N(ToString(o.status)), "raw body")
  ELSE o.body

\* Response.raise_for_status() raises for 4xx and 5xx.
raise_for_status(st) == 400 <= st /\ st < 600

\* Mutant: no raise_for_status() call.
add_comment_unchecked(o) ==
  IF o.kind = "exception" THEN JNull
  ELSE IF o.body = NonJson THEN JNull
  ELSE o.body

\* add_comment(): the value returned for an outcome of requests.post.
add_comment(o) ==
  IF o.kind = "exception" THEN JNull
  ELSE IF raise_for_status(o.status) THEN JNull
  ELSE IF o.body = NonJson THEN JNull
  ELSE o.body

\* Whether the API function prints its own line before returning.
ApiPrints(m, o) ==
  IF m = "update" THEN o.kind = "exception"
  ELSE o.kind = "exception" \/ raise_for_status(o.status) \/ o.body = NonJson

ApiResult(m, o) == IF m = "update" THEN update_occupation(o) ELSE add_comment(o)

-----------------------------------------------------------------------------
\* Classification of a result in main()

\* bool(result)
Truthy(r) ==
  CASE r.t = "obj" -> DOMAIN r.f # {}
    [] r.t = "null" -> FALSE
    [] r.t = "num" -> r.v # "0"
    [] r.t = "bool" -> r.b
    [] r.t = "str" -> Len(r.s) > 0
    [] r.t = "list" -> Len(r.l) > 0

\* 'code' in result
HasCode(r) ==
  CASE r.t = "obj" -> "code" \in DOMAIN r.f
    [] r.t = "str" -> IsSubstring(CodeText, r.s)
    [] r.t = "list" -> \E i \in 1..Len(r.l) : r.l[i] = JStr(CodeText)

\* The TypeError the condition of the if raises, or <<>>.
classify_error(r) ==
  IF ~Truthy(r) THEN <<>>
  ELSE IF r.t = "num" THEN <<"argument of type 'int' is not iterable">>
  ELSE IF r.t = "bool" THEN <<"argument of type 'bool' is not iterable">>
  ELSE IF ~HasCode(r) THEN <<>>
  ELSE IF r.t = "str" THEN <<"string indices must be integers">>
  ELSE IF r.t = "list" THEN <<"list indices must be integers or slices, not str">>
  ELSE <<>>

\* Mutant: any code field counts as success.
classify_any_code(r) ==
  IF classify_error(r) # <<>> THEN "raise"
  ELSE IF Truthy(r) /\ HasCode(r) THEN "success"
  ELSE "failure"

\* The branch main() takes on a result: the condition
\* result and ('code' in result and result['code'] == '0'), or "raise"
\* when evaluating it raises.
classify(r) ==
  IF classify_error(r) # <<>> THEN "raise"
  ELSE IF Truthy(r) /\ HasCode(r) /\ r.f["code"] = S("0") THEN "success"
  ELSE "failure"

\* Mutant: get() without the default.
get_none(r, k, default) == IF k \in DOMAIN r.f THEN r.f[k].v ELSE "None"

\* dict.get(key, default), formatted into the message.
get(r, k, default) == IF k \in DOMAIN r.f THEN r.f[k].v ELSE default

error_details(r) ==
  IF r.t = "obj" /\ "code" \in DOMAIN r.f /\ r.f["code"] # S("0")
  THEN <<r.f["code"].v, get(r, "desc", "Unknown error"), get(r, "data", "Unknown data")>>
  ELSE <<>>

-----------------------------------------------------------------------------
\* Payloads, requests and lines

\* Mutant: the isdigit() test is dropped.
occupation_value_any(k) ==
  IF Len(k) < KeyWidth THEN zfill(k, KeyWidth) ELSE k

\* The occupation key sent: main() pads a short all-digit key.
occupation_value(k) ==
  IF isdigit(k) /\ Len(k) < KeyWidth THEN zfill(k, KeyWidth) ELSE k

\* Mutant: a missing key passes as empty text.
payload_error_none(m, row) == <<>>

\* Whether preparing the payload raises: a missing key is a float, which
\* has no isdigit.
payload_error(m, row) ==
  IF m = "update" /\ row.key.nan
  THEN <<"'float' object has no attribute 'isdigit'">>
  ELSE <<>>

Payload(m, row) ==
  IF m = "update"
  THEN [employment_key |-> row.employment,
        occupation_key |-> occupation_value(row.key.text),
        is_public_politician |-> FALSE,
        is_criminal_investigation |-> FALSE]
  ELSE [comment |->
          <<"- Change occupation CMS note: Occupation updated due to data segregation issue from 2.0 to 3.0.",
            "- Change criminal subjected CMS note: Criminal subjected updated as user is from 2.0.">>]

Request(m, i, row, cfg, payload) ==
  [row |-> i,
   method |-> IF m = "update" THEN "PUT" ELSE "POST",
   url |-> IF m = "update"
           THEN <<cfg.api_base_url, "/cms/v2/applicants/", row.applicant, "/occupation">>
           ELSE <<cfg.api_base_url, "/cms/v2/applicants/", row.applicant,
                  "/institutions/", row.institution, "/comment">>,
   Authorization |-> cfg.jwt_token,
   ContentType |-> "application/json",
   json |-> payload]

\* A line of the console or of the log file; row is the row it is about
\* (0: none).
Line(text, applicant, details, i) ==
  [text |-> text, applicant |-> applicant, details |-> details, row |-> i]

SuccessText(m) ==
  IF m = "update" THEN "Successfully updated occupation for applicant "
  ELSE "Successfully add comment for applicant "

FailureText(m) ==
  IF m = "update" THEN "Failed to update occupation for applicant "
  ELSE "Failed to add comment for applicant: "

ErrorText == "Error in main process: "

\* The line the API function prints in its except branch.
ApiErrorText(m) ==
  IF m = "update" THEN "Error updating occupation for applicant "
  ELSE "Error adding comment for applicant "

\* Mutant: success lines go to the log file as well (the logging.info call
\* the code removed).
log_success_logged(m, id, i) ==
  /\ console' = Append(console, Line(SuccessText(m), id, <<>>, i))
  /\ logfile' = Append(logfile, Line(SuccessText(m), id, <<>>, i))

\* log_success(): console only.
log_success(m, id, i) ==
  /\ console' = Append(console, Line(SuccessText(m), id, <<>>, i))
  /\ logfile' = logfile

\* log_failure(): console and log file.
log_failure(m, id, details, i) ==
  /\ console' = Append(console, Line(FailureText(m), id, details, i))
  /\ logfile' = Append(logfile, Line(FailureText(m), id, details, i))

\* The except clause of main(): log_error() in update mode (console and
\* log file), print() in comment mode; the run ends.
main_except(msg) ==
  /\ pc' = "aborted"
  /\ console' = Append(console, Line(ErrorText, "", msg, 0))
  /\ logfile' = IF mode = "update"
                THEN Append(logfile, Line(ErrorText, "", msg, 0))
                ELSE logfile

-----------------------------------------------------------------------------
\* The run

NoData == [comment |-> <<>>]

Init ==
  /\ mode \in Modes
  /\ cfgFile \in ConfigFiles
  /\ csvFile \in CsvFiles
  /\ pc = "start"
  /\ config = NoConfig
  /\ df = <<>>
  /\ idx = 0
  /\ data = NoData
  /\ result = JNull
  /\ requests = <<>>
  /\ outcomes = <<>>
  /\ results = <<>>
  /\ status = <<>>
  /\ console = <<>>
  /\ logfile = <<>>

setup_logging ==
  /\ pc = "start"
  /\ pc' = "config"
  /\ UNCHANGED <<mode, config, df, idx, data, result, requests, outcomes,
                 results, status, console, logfile, cfgFile, csvFile>>

ReadConfig ==
  /\ pc = "config"
  /\ IF read_config_error(cfgFile) = <<>>
     THEN /\ config' = read_config(cfgFile)
          /\ pc' = "csv"
          /\ UNCHANGED <<console, logfile>>
     ELSE /\ main_except(read_config_error(cfgFile))
          /\ UNCHANGED config
  /\ UNCHANGED <<mode, df, idx, data, result, requests, outcomes, results,
                 status, cfgFile, csvFile>>

ReadCsv ==
  /\ pc = "csv"
  /\ IF csvFile.ok
     THEN /\ df' = csvFile.rows
          /\ status' = [i \in 1..Len(csvFile.rows) |-> "pending"]
          /\ idx' = 1
          /\ pc' = "loop"
          /\ UNCHANGED <<console, logfile>>
     ELSE /\ main_except(<<"Error reading CSV file: ", "No such file or directory">>)
          /\ UNCHANGED <<df, status, idx>>
  /\ UNCHANGED <<mode, config, data, result, requests, outcomes, results,
                 cfgFile, csvFile>>

\* One iteration up to the API call: the payload, and print(data) in
\* update mode.
NextRow ==
  /\ pc = "loop"
  /\ idx <= Len(df)
  /\ IF payload_error(mode, df[idx]) # <<>>
     THEN /\ main_except(payload_error(mode, df[idx]))
          /\ UNCHANGED data
     ELSE /\ data' = Payload(mode, df[idx])
          /\ pc' = "call"
          /\ console' = IF mode = "update"
                        THEN Append(console, Line("data", df[idx].applicant, <<>>, idx))
                        ELSE console
          /\ UNCHANGED logfile
  /\ UNCHANGED <<mode, config, df, idx, result, requests, outcomes, results,
                 status, cfgFile, csvFile>>

\* update_occupation() / add_comment(): one request, whatever comes back.
Call ==
  /\ pc = "call"
  /\ \E o \in Outcomes :
       /\ requests' = Append(requests, Request(mode, idx, df[idx], config, data))
       /\ outcomes' = Append(outcomes, o)
       /\ result' = ApiResult(mode, o)
       /\ results' = Append(results, ApiResult(mode, o))
       /\ console' = IF ApiPrints(mode, o)
                     THEN Append(console, Line(ApiErrorText(mode), df[idx].applicant, <<>>, idx))
                     ELSE console
  /\ pc' = "classify"
  /\ UNCHANGED <<mode, config, df, idx, data, status, logfile, cfgFile, csvFile>>

\* The if/else on the result, and the step to the next row.
Classify ==
  /\ pc = "classify"
  /\ LET c == classify(result)
         id == df[idx].applicant
     IN  IF c = "raise"
         THEN /\ main_except(classify_error(result))
              /\ UNCHANGED <<status, idx>>
         ELSE /\ IF c = "success"
                 THEN log_success(mode, id, idx)
                 ELSE log_failure(mode, id, error_details(result), idx)
              /\ status' = [status EXCEPT ![idx] = c]
              /\ idx' = idx + 1
              /\ pc' = "loop"
  /\ UNCHANGED <<mode, config, df, data, result, requests, outcomes, results,
                 cfgFile, csvFile>>

\* The loop is exhausted: the completion message (update mode only).
Finish ==
  /\ pc = "loop"
  /\ idx > Len(df)
  /\ pc' = "done"
  /\ console' = IF mode = "update"
                THEN Append(console, Line("Process completed. Log file for errors: ", "", <<>>, 0))
                ELSE console
  /\ UNCHANGED <<mode, config, df, idx, data, result, requests, outcomes,
                 results, status, logfile, cfgFile, csvFile>>

Next ==
  \/ setup_logging
  \/ ReadConfig
  \/ ReadCsv
  \/ NextRow
  \/ Call
  \/ Classify
  \/ Finish

Spec == Init /\ [][Next]_vars

-----------------------------------------------------------------------------
\* Vocabulary of the properties

\* The dataset was loaded: the row loop was entered.
Loaded == idx >= 1

Ended == pc \in {"done", "aborted"}

\* Row i had its request answered and main() is past its if/else.
Handled(i) == i \in 1..Len(outcomes) /\ ~(pc = "classify" /\ idx = i)

IsResponse(o) == o.kind = "response"
CarriesCode(o) == IsResponse(o) /\ o.body.t = "obj" /\ "code" \in DOMAIN o.body.f
CodeIsZero(o) == CarriesCode(o) /\ o.body.f["code"] = [t |-> "str", v |-> "0"]
Is2xx(o) == IsResponse(o) /\ 200 <= o.status /\ o.status <= 299
Is4xx5xx(o) == IsResponse(o) /\ 400 <= o.status /\ o.status <= 599
IsNonJson(o) == IsResponse(o) /\ o.body.t = "nonjson"

LinesFor(log, i) == {k \in 1..Len(log) : log[k].row = i}

-----------------------------------------------------------------------------
\* C1: in both modes, whatever each row's HTTP outcome, the run goes on to
\* the next row: when the run over a loaded dataset (here one with every
\* occupation key present) has ended, every row had its request issued and
\* its outcome classified.
C1_RunContinues ==
  (Ended /\ Loaded /\ \A i \in 1..Len(df) : ~df[i].key.nan) =>
    \A i \in 1..Len(df) :
      i <= Len(outcomes) /\ status[i] \in {"success", "failure"}

\* C2 as written: every row whose response carries code "0" is classified
\* success and has no line in the error log.
C2_Original ==
  \A i \in 1..Len(outcomes) :
    (Handled(i) /\ status[i] # "pending" /\ CodeIsZero(outcomes[i])) =>
      (status[i] = "success" /\ LinesFor(logfile, i) = {})

\* C2 amended: a row whose response is a JSON object with code "0" is
\* classified success and leaves no line in the error log, in update mode
\* always and in comment mode unless the status is 4xx/5xx; no success row
\* has a line in the log file, which holds failure and error lines only.
C2_SuccessNotLogged ==
  /\ \A i \in 1..Len(outcomes) :
       (Handled(i) /\ CodeIsZero(outcomes[i])
          /\ (mode = "update" \/ ~Is4xx5xx(outcomes[i]))) =>
         (status[i] = "success" /\ LinesFor(logfile, i) = {})
  /\ \A i \in 1..Len(status) :
       status[i] = "success" => LinesFor(logfile, i) = {}
  /\ \A k \in 1..Len(logfile) :
       logfile[k].text \in {"Failed to update occupation for applicant ",
                            "Failed to add comment for applicant: ",
                            "Error in main process: "}

C2_Witness ==
  /\ pc = "done"
  /\ Len(df) = 2
  /\ CodeIsZero(outcomes[1]) /\ status[1] = "success"
  /\ status[2] = "failure" /\ Len(logfile) = 1

\* C3: a row whose response carries a code other than "0", or whose call
\* raised a transport exception, is classified failure, and exactly one
\* line, carrying the row's applicant identifier, is in the error log.
C3_FailureLogged ==
  \A i \in 1..Len(outcomes) :
    (Handled(i)
       /\ \/ outcomes[i].kind = "exception"
          \/ (CarriesCode(outcomes[i]) /\ ~CodeIsZero(outcomes[i]))) =>
      /\ status[i] = "failure"
      /\ Cardinality(LinesFor(logfile, i)) = 1
      /\ \A k \in LinesFor(logfile, i) : logfile[k].applicant = df[i].applicant

C3_Witness ==
  /\ pc = "done"
  /\ Len(df) = 2
  /\ outcomes[1].kind = "exception"
  /\ CarriesCode(outcomes[2]) /\ ~CodeIsZero(outcomes[2])
  /\ status = <<"failure", "failure">>
  /\ Len(logfile) = 2

\* C4 as written: a classified row whose response is non-2xx or not JSON is
\* classified failure.
C4_Original ==
  \A i \in 1..Len(outcomes) :
    (Handled(i) /\ status[i] # "pending" /\ IsResponse(outcomes[i])
       /\ (~Is2xx(outcomes[i]) \/ IsNonJson(outcomes[i]))) =>
      status[i] = "failure"

\* C4 amended: a body that is not JSON is a failure in both modes whatever
\* the status, and a 4xx/5xx response is a failure in comment mode whatever
\* the body; update mode does not look at the status, and comment mode does
\* not outside 4xx/5xx: there a non-2xx response with a JSON object body is
\* a success exactly when its code is "0".
C4_StatusAndBody ==
  \A i \in 1..Len(outcomes) :
    (Handled(i) /\ IsResponse(outcomes[i])) =>
      /\ IsNonJson(outcomes[i]) => status[i] = "failure"
      /\ (mode = "comment" /\ Is4xx5xx(outcomes[i])) => status[i] = "failure"
      /\ (~Is2xx(outcomes[i]) /\ outcomes[i].body.t = "obj"
            /\ (mode = "update" \/ ~Is4xx5xx(outcomes[i]))) =>
           /\ CodeIsZero(outcomes[i]) => status[i] = "success"
           /\ ~CodeIsZero(outcomes[i]) => status[i] = "failure"

C4_Witness ==
  /\ pc = "done"
  /\ mode = "comment"
  /\ Len(df) = 2
  /\ outcomes[1].status = 500 /\ CodeIsZero(outcomes[1]) /\ status[1] = "failure"
  /\ outcomes[2].status = 200 /\ IsNonJson(outcomes[2]) /\ status[2] = "failure"

\* The other mode's verdict on the same outcome.
OtherMode == IF mode = "update" THEN "comment" ELSE "update"
OtherModeSucceeds(o) == classify(ApiResult(OtherMode, o)) = "success"

\* C5 as written: a row is a success in the mode run exactly when the other
\* mode makes the same outcome a success.
C5_Original ==
  \A i \in 1..Len(outcomes) :
    (Handled(i) /\ status[i] # "pending") =>
      (status[i] = "success" <=> OtherModeSucceeds(outcomes[i]))

\* C5 amended: for a transport exception and for every response whose
\* status is not 4xx/5xx the two modes agree (success exactly for a JSON
\* object with code "0"); for a 4xx/5xx response comment mode is never a
\* success, while update mode still goes by the body.
C5_SameClassification ==
  \A i \in 1..Len(outcomes) :
    (Handled(i) /\ status[i] # "pending") =>
      /\ ~Is4xx5xx(outcomes[i]) =>
           /\ status[i] = "success" <=> CodeIsZero(outcomes[i])
           /\ status[i] = "success" <=> OtherModeSucceeds(outcomes[i])
      /\ (Is4xx5xx(outcomes[i]) /\ mode = "comment") => status[i] = "failure"
      /\ (Is4xx5xx(outcomes[i]) /\ mode = "update") =>
           (status[i] = "success" <=> CodeIsZero(outcomes[i]))

C5_Witness ==
  /\ pc = "done"
  /\ mode = "update"
  /\ Len(df) = 2
  /\ outcomes[1].kind = "exception" /\ status[1] = "failure"
  /\ outcomes[2].status = 500 /\ CodeIsZero(outcomes[2]) /\ status[2] = "success"

\* The reference normalisation: k left-padded with '0' to length 3 when k is
\* non-empty, all digits and shorter than 3; k otherwise.
RefPad(k) ==
  IF Len(k) \in {1, 2} /\ \A i \in 1..Len(k) : k[i] \in Digits
  THEN [i \in 1..3 |-> IF i <= 3 - Len(k) THEN "0" ELSE k[i - (3 - Len(k))]]
  ELSE k

\* C6: every PUT carries the row's employment key, the occupation key
\* normalised as the reference function does, and both flags false; "7"
\* goes out as "007", "042", "1234" and "0A7" as they are.
C6_OccupationKey ==
  mode = "update" =>
    \A k \in 1..Len(requests) :
      LET row == df[requests[k].row]
          sent == requests[k].json
      IN  /\ requests[k].method = "PUT"
          /\ sent.employment_key = row.employment
          /\ sent.occupation_key = RefPad(row.key.text)
          /\ sent.is_public_politician = FALSE
          /\ sent.is_criminal_investigation = FALSE
          /\ row.key.text = <<"7">> => sent.occupation_key = <<"0", "0", "7">>
          /\ row.key.text \in {<<"0", "4", "2">>, <<"1", "2", "3", "4">>, <<"0", "A", "7">>}
               => sent.occupation_key = row.key.text

C6_Witness ==
  /\ mode = "update"
  /\ Len(requests) = 1
  /\ df[1].key.text = <<"0", "7">>
  /\ requests[1].json.occupation_key = <<"0", "0", "7">>

ConfigBad ==
  \/ ~cfgFile.present \/ ~cfgFile.parses
  \/ ~cfgFile.auth \/ ~cfgFile.jwt
  \/ ~cfgFile.api \/ ~cfgFile.base

\* C7: when the configuration or the dataset fails to load, the run ends
\* in the top-level handler before the row loop, with no request issued; a
\* missing [Authorization] section gives an error line that contains
\* "Authorization section not found".
C7_LoadFailureAborts ==
  /\ (ConfigBad \/ ~csvFile.ok) =>
       /\ requests = <<>>
       /\ ~Loaded
       /\ pc \in {"start", "config", "csv", "aborted"}
  /\ (ConfigBad /\ pc \notin {"start", "config"}) => pc = "aborted"
  /\ (~csvFile.ok /\ pc \notin {"start", "config", "csv"}) => pc = "aborted"
  /\ (cfgFile.parses /\ ~cfgFile.auth /\ pc = "aborted") =>
       /\ Len(console) = 1
       /\ console[1].text = "Error in main process: "
       /\ \E j \in 1..Len(console[1].details) :
            console[1].details[j] = "Authorization section not found"

C7_Witness ==
  /\ pc = "aborted"
  /\ cfgFile.present /\ cfgFile.parses /\ ~cfgFile.auth /\ cfgFile.api
  /\ csvFile.ok /\ Len(csvFile.rows) = 2
  /\ requests = <<>>

\* C8: in a run that loaded its inputs, requests go out in dataset order,
\* one per row, each row classified before the next request, and when the
\* run has ended there are as many requests as rows and every row is
\* success or failure.
C8_OneRequestPerRow ==
  Loaded =>
    /\ \A k \in 1..Len(requests) : requests[k].row = k
    /\ \A k \in 1..Len(requests) :
         k < Len(requests) => status[k] \in {"success", "failure"}
    /\ Ended =>
         /\ Len(requests) = Len(df)
         /\ \A i \in 1..Len(df) : status[i] \in {"success", "failure"}
         /\ Len(df) = 0 => logfile = <<>>

\* C9: the log line of a failed row carries the code, the desc or
\* 'Unknown error', and the data or 'Unknown data' when the result is an
\* object with a code other than "0"; otherwise it carries the applicant
\* identifier and no diagnostics.
C9_FailureDiagnostics ==
  \A i \in 1..Len(results) :
    (Handled(i) /\ status[i] = "failure") =>
      /\ LinesFor(logfile, i) # {}
      /\ \A k \in LinesFor(logfile, i) :
           LET r == results[i]
               line == logfile[k]
           IN  /\ line.applicant = df[i].applicant
               /\ IF r.t = "obj" /\ "code" \in DOMAIN r.f
                       /\ r.f["code"] # [t |-> "str", v |-> "0"]
                  THEN /\ Len(line.details) = 3
                       /\ line.details[1] = r.f["code"].v
                       /\ line.details[2] =
                            IF "desc" \in DOMAIN r.f THEN r.f["desc"].v ELSE "Unknown error"
                       /\ line.details[3] =
                            IF "data" \in DOMAIN r.f THEN r.f["data"].v ELSE "Unknown data"
                  ELSE line.details = <<>>

C9_Witness ==
  /\ pc = "done"
  /\ Len(df) = 2
  /\ status = <<"failure", "failure">>
  /\ logfile[1].details = <<"5", "Unknown error", "d1">>
  /\ results[2].t = "obj" /\ "code" \notin DOMAIN results[2].f
  /\ logfile[2].details = <<>>

\* C10: in update mode a row whose occupation key is missing gets no
\* request, nor does any later row; they stay unclassified, the run ends
\* in the top-level handler and one 'Error in main process' line is on the
\* console and in the log file.
C10_MissingKeyAborts ==
  (mode = "update" /\ Loaded) =>
    \A i \in 1..Len(df) :
      df[i].key.nan =>
        /\ \A k \in 1..Len(requests) : requests[k].row < i
        /\ \A j \in i..Len(df) : status[j] = "pending"
        /\ pc # "done"
        /\ (idx = i /\ pc # "loop") =>
             /\ pc = "aborted"
             /\ Cardinality({k \in 1..Len(console) : console[k].text = "Error in main process: "}) = 1
             /\ Cardinality({k \in 1..Len(logfile) : logfile[k].text = "Error in main process: "}) = 1
             /\ console[Len(console)].text = "Error in main process: "
             /\ logfile[Len(logfile)].text = "Error in main process: "

C10_Witness ==
  /\ mode = "update"
  /\ pc = "aborted"
  /\ Len(df) = 2
  /\ ~df[1].key.nan /\ df[2].key.nan
  /\ Len(requests) = 1
  /\ status = <<"failure", "pending">>
  /\ Len(logfile) = 2

====
